---- MODULE Spec2Model ----
(***************************************************************************)
(* Model of package timeshift (src/timeshift.go): the pattern parser New   *)
(* with its process-wide cache, and the evaluator TimeShift.Exec.          *)
(*                                                                         *)
(* A pattern is a sequence of one-character strings.  A time.Time is a     *)
(* record [day, sec, nsec, loc]: day is the wall-clock day number counted  *)
(* from 0001-01-01 (day 0, a Monday), sec the second of that day, nsec the *)
(* nanosecond of that second, loc the location.  Locations are fixed       *)
(* offsets, for which Go's calendar arithmetic on wall-clock fields is     *)
(* exact.  A *TimeShift is an address into heap; address 0 is nil.         *)
(*                                                                         *)
(* New releases cacheMutex between its lookup and its store, so calls of   *)
(* New that overlap interleave: procs holds, for the goroutines that call  *)
(* New and Exec, each one's position and its local variables, and a call   *)
(* of New is the steps Enter, RLock, Lookup, Build, Lock, Write.           *)
(***************************************************************************)
EXTENDS Integers, Sequences, FiniteSets, TLC

VARIABLES heap, cache, calls, procs

vars == <<heap, cache, calls, procs>>

-----------------------------------------------------------------------------
(* Bounds of the model.                                                    *)

\* week values v of the patterns W^v and W$v are 1..MaxWeek
MaxWeek == 3
\* day-from-end values k of the patterns D$k are 1..MaxDayEnd
MaxDayEnd == 3
\* input timestamps lie in the years 2020..LastYear
LastYear == 2021
\* digits values of the one-clause parser inputs are 0..MaxVal
MaxVal == 8
\* calls of New made in one behaviour by the goroutines together
MaxCalls == 3
\* goroutines that call New
NumProcs == 2

-----------------------------------------------------------------------------
(* The time package, as far as Exec uses it.                               *)

isLeap(year) == year % 4 = 0 /\ (year % 100 # 0 \/ year % 400 = 0)

daysBefore == <<0, 31, 59, 90, 120, 151, 181, 212, 243, 273, 304, 334, 365>>

\* days from 0001-01-01 to January 1 of year
daysSinceEpoch(year) ==
    365 * (year - 1) + ((year - 1) \div 4) - ((year - 1) \div 100)
      + ((year - 1) \div 400)

\* norm: hi and lo with lo brought into 0..base-1
normHi(hi, lo, base) == hi + (lo \div base)
normLo(lo, base) == lo % base

\* time.Date, last step: the day number and the second of the day of
\* fields in range (day alone may be out of range)
dateAbs(year, month, day, hour, min, sec, nsec, loc) ==
    [day |-> daysSinceEpoch(year) + daysBefore[month]
               + (IF isLeap(year) /\ month >= 3 THEN 1 ELSE 0) + day - 1,
     sec |-> hour * 3600 + min * 60 + sec, nsec |-> nsec, loc |-> loc]

\* time.Date, the carries hour -> day, min -> hour, sec -> min
dateNormHour(year, month, day, hour, min, sec, nsec, loc) ==
    dateAbs(year, month, normHi(day, hour, 24), normLo(hour, 24), min, sec, nsec, loc)
dateNormMin(year, month, day, hour, min, sec, nsec, loc) ==
    dateNormHour(year, month, day, normHi(hour, min, 60), normLo(min, 60), sec, nsec, loc)
dateNormSec(year, month, day, hour, min, sec, nsec, loc) ==
    dateNormMin(year, month, day, hour, normHi(min, sec, 60), normLo(sec, 60), nsec, loc)

\* time.Date: out-of-range month, day, hour, min, sec, nsec are carried
GoDate(year, month, day, hour, min, sec, nsec, loc) ==
    dateNormSec(normHi(year, month - 1, 12), normLo(month - 1, 12) + 1, day, hour, min,
                normHi(sec, nsec, 1000000000), normLo(nsec, 1000000000), loc)

\* absDate, last steps: month and day of the day dd of a year counted from
\* 0 as in a common year; yday is counted from 0
absDay(year, yday, dd, m0) ==
    IF dd >= daysBefore[m0 + 2]
    THEN [year |-> year, month |-> m0 + 2, day |-> dd - daysBefore[m0 + 2] + 1,
          yday |-> yday + 1]
    ELSE [year |-> year, month |-> m0 + 1, day |-> dd - daysBefore[m0 + 1] + 1,
          yday |-> yday + 1]
absMonth(year, yday) ==
    IF isLeap(year) /\ yday = 31 + 29 - 1
    THEN [year |-> year, month |-> 2, day |-> 29, yday |-> yday + 1]
    ELSE IF isLeap(year) /\ yday > 31 + 29 - 1
         THEN absDay(year, yday, yday - 1, (yday - 1) \div 31)
         ELSE absDay(year, yday, yday, yday \div 31)

\* absDate, the cycles of 400, 100, 4 and 1 years: y counts the years
\* passed, d the days left, n the cycles cut in this step
absYear1(y, d, n) == absMonth(y + n + 1, d - 365 * n)
absYear4(y, d, n) ==
    absYear1(y + 4 * n, d - 1461 * n,
             ((d - 1461 * n) \div 365) - (((d - 1461 * n) \div 365) \div 4))
absYear100(y, d, n) == absYear4(y + 100 * n, d - 36524 * n, (d - 36524 * n) \div 1461)
absYear400(y, d) == absYear100(y, d, (d \div 36524) - ((d \div 36524) \div 4))

\* Time.Date and Time.YearDay: [year, month, day, yday] of a day number
absDate(dayNo) == absYear400(400 * (dayNo \div 146097), dayNo % 146097)

\* Time.Weekday: 0 is Sunday
Weekday(tm) == (tm.day + 1) % 7

\* Time.Clock
Clock(tm) ==
    [hour |-> tm.sec \div 3600, min |-> (tm.sec % 3600) \div 60, sec |-> tm.sec % 60]

\* Time.AddDate
addDateOf(d, c, tm, years, months, days) ==
    GoDate(d.year + years, d.month + months, d.day + days,
           c.hour, c.min, c.sec, tm.nsec, tm.loc)
AddDate(tm, years, months, days) ==
    addDateOf(absDate(tm.day), Clock(tm), tm, years, months, days)

-----------------------------------------------------------------------------
(* Types of the package.                                                   *)

\* the zero partDef
ZeroPart ==
    [active |-> FALSE, val |-> 0, absolute |-> FALSE,
     fromBegin |-> FALSE, fromEnd |-> FALSE]

\* &TimeShift{empty: false}
NewTimeShift ==
    [empty |-> FALSE, year |-> ZeroPart, month |-> ZeroPart, day |-> ZeroPart,
     week |-> ZeroPart, weekday |-> ZeroPart, hour |-> ZeroPart,
     minute |-> ZeroPart, second |-> ZeroPart]

\* pointers: nil is address 0, an object's address is its index in heap
Nil == 0

\* error values of New; NoError is a nil error
NoError == "nil"
ErrPattern == "Illegal pattern"
ErrSequence == "Wrong sequence of parts"
ErrOption == "Illegal option"
ErrRelative == "can not be used with relative values"
ErrBoth == "can not be used simultaneously"
ErrMonth == "Illegal month"
ErrDay == "Illegal day"
ErrRelWeek == "Illegal relative week"
ErrAbsWeek == "Illegal absolute week"
ErrWeekday == "Illegal weekday"

-----------------------------------------------------------------------------
(* The regular expressions partExpression and checkExpression.             *)

\* \s of Go's regexp syntax
isSpace(c) == c \in {" ", "\t", "\n", "\r", "\f"}
\* \d
isDigit(c) == c \in {"0", "1", "2", "3", "4", "5", "6", "7", "8", "9"}
\* [YMDWwhms]
isName(c) == c \in {"Y", "M", "D", "W", "w", "h", "m", "s"}

RECURSIVE skipSpaces(_, _)
\* \s* from position i of s: the first position >= i that holds no space,
\* Len(s) + 1 when there is none
skipSpaces(s, i) ==
    IF i <= Len(s) /\ isSpace(s[i]) THEN skipSpaces(s, i + 1) ELSE i

RECURSIVE skipDigits(_, _)
\* \d* from position i of s
skipDigits(s, i) ==
    IF i <= Len(s) /\ isDigit(s[i]) THEN skipDigits(s, i + 1) ELSE i

\* no match
noMatch(i) ==
    [ok |-> FALSE, next |-> i, src |-> <<>>, name |-> "",
     options |-> <<>>, sign |-> <<>>, val |-> <<>>]

\* (\d+)(?:\s*) from position d, after the unit letter at a, the option
\* ending before c and the sign ending before d; e is the end of the digits
matchDigits(s, i, a, c, d, e) ==
    IF e > d
    THEN [ok |-> TRUE, next |-> skipSpaces(s, e),
          src |-> SubSeq(s, i, skipSpaces(s, e) - 1),
          name |-> s[a], options |-> SubSeq(s, a + 1, c - 1),
          sign |-> SubSeq(s, c, d - 1), val |-> SubSeq(s, d, e - 1)]
    ELSE noMatch(i)

\* ([+-]?) at position c
matchSign(s, i, a, c) ==
    IF c <= Len(s) /\ s[c] \in {"+", "-"}
    THEN matchDigits(s, i, a, c, c + 1, skipDigits(s, c + 1))
    ELSE matchDigits(s, i, a, c, c, skipDigits(s, c))

\* ([YMDWwhms])([\^\$]?) at position a
matchName(s, i, a) ==
    IF a <= Len(s) /\ isName(s[a])
    THEN IF a + 1 <= Len(s) /\ s[a + 1] \in {"^", "$"}
         THEN matchSign(s, i, a, a + 2)
         ELSE matchSign(s, i, a, a + 1)
    ELSE noMatch(i)

\* one match of partExpression that begins exactly at position i of s:
\* (?:\s*)([YMDWwhms])([\^\$]?)([+-]?)(\d+)(?:\s*)
matchPart(s, i) == matchName(s, i, skipSpaces(s, i))

RECURSIVE checkREFrom(_, _)
\* (partExpression)* matches s from position i up to its end
checkREStep(s, m) == m.ok /\ checkREFrom(s, m.next)
checkREFrom(s, i) == IF i > Len(s) THEN TRUE ELSE checkREStep(s, matchPart(s, i))

\* len(checkRE.FindAllStringSubmatch(pattern, -1)) # 0: ^(partExpression)+$
checkRE(s) == checkREStep(s, matchPart(s, 1))

RECURSIVE splitREFrom(_, _)
\* the leftmost non-overlapping matches of partExpression in s from i on
splitREStep(s, i, m) ==
    IF m.ok THEN <<m>> \o splitREFrom(s, m.next) ELSE splitREFrom(s, i + 1)
splitREFrom(s, i) == IF i > Len(s) THEN <<>> ELSE splitREStep(s, i, matchPart(s, i))

\* splitRE.FindAllStringSubmatch(pattern, -1)
splitRE(s) == splitREFrom(s, 1)

-----------------------------------------------------------------------------
(* New: the parser.                                                        *)

\* []byte("YMDWwhms!")
partNames == <<"Y", "M", "D", "W", "w", "h", "m", "s", "!">>

RECURSIVE nextNameIdxNoAdvance(_, _)
\* nextNameIdx without the step "nameIdx++" on a match: the cursor stays on
\* the name found
nextNameIdxNoAdvance(name, nameIdx) ==
    IF nameIdx >= Len(partNames) THEN nameIdx
    ELSE IF name = partNames[nameIdx + 1] THEN nameIdx
         ELSE nextNameIdxNoAdvance(name, nameIdx + 1)

RECURSIVE nextNameIdx(_, _)
\* the cursor after the scan for name from nameIdx (0-based, as in the
\* source); len(partNames) when the scan runs off the end
nextNameIdx(name, nameIdx) ==
    IF nameIdx >= Len(partNames) THEN nameIdx
    ELSE IF name = partNames[nameIdx + 1] THEN nameIdx + 1
         ELSE nextNameIdx(name, nameIdx + 1)

\* the value of a digit
digitVal(c) ==
    CHOOSE k \in 0..9 : c = <<"0", "1", "2", "3", "4", "5", "6", "7", "8", "9">>[k + 1]

RECURSIVE parseIntFrom(_, _, _)
\* strconv.ParseInt(s, 10, 32) with its error dropped: the value of the
\* digits, or 1<<31 - 1 when it is out of range
parseIntStep(s, i, acc, dg) ==
    IF acc > (2147483647 - dg) \div 10 THEN 2147483647
    ELSE parseIntFrom(s, i + 1, acc * 10 + dg)
parseIntFrom(s, i, acc) ==
    IF i > Len(s) THEN acc ELSE parseIntStep(s, i, acc, digitVal(s[i]))

ParseInt(s) == parseIntFrom(s, 1, 0)

\* the partDef of a part before its options are read
signedVal(sign, v) ==
    [active |-> TRUE,
     val |-> IF sign = <<"-">> THEN -v ELSE v,
     absolute |-> sign \notin {<<"+">>, <<"-">>},
     fromBegin |-> FALSE, fromEnd |-> FALSE]
signedPart(part) == signedVal(part.sign, ParseInt(part.val))

\* applyOptions with '^' taken on every unit
applyOptionsAnyUnit(name, options, pDf) ==
    IF options = <<"^">>
    THEN [pDf |-> [pDf EXCEPT !.fromBegin = TRUE], err |-> NoError]
    ELSE IF options = <<"$">>
    THEN IF name \in {"D", "W"}
         THEN [pDf |-> [pDf EXCEPT !.fromEnd = TRUE], err |-> NoError]
         ELSE [pDf |-> pDf, err |-> ErrOption]
    ELSE [pDf |-> pDf, err |-> NoError]

\* the loop over part[partOptions]: [pDf, err]
applyOptions(name, options, pDf) ==
    IF options = <<"^">>
    THEN IF name = "W"
         THEN [pDf |-> [pDf EXCEPT !.fromBegin = TRUE], err |-> NoError]
         ELSE [pDf |-> pDf, err |-> ErrOption]
    ELSE IF options = <<"$">>
    THEN IF name \in {"D", "W"}
         THEN [pDf |-> [pDf EXCEPT !.fromEnd = TRUE], err |-> NoError]
         ELSE [pDf |-> pDf, err |-> ErrOption]
    ELSE [pDf |-> pDf, err |-> NoError]

\* the two checks of the anchors against the sign and against each other
checkAnchors(pDf) ==
    IF (pDf.fromBegin \/ pDf.fromEnd) /\ ~pDf.absolute THEN ErrRelative
    ELSE IF pDf.fromBegin /\ pDf.fromEnd THEN ErrBoth
    ELSE NoError

\* checkValue with the week value 0 refused for relative weeks too
checkValueNoZeroWeek(name, pDf) ==
    IF name = "M" /\ pDf.absolute /\ pDf.val = 0 THEN ErrMonth
    ELSE IF name = "D" /\ pDf.active /\ pDf.absolute /\ pDf.val = 0 THEN ErrDay
    ELSE IF name = "W" /\ pDf.active /\ pDf.val = 0 THEN ErrRelWeek
    ELSE IF name = "w" /\ (pDf.val < 0 \/ pDf.val > 6) THEN ErrWeekday
    ELSE NoError

\* the per-unit value rules of the switch on name
checkValue(name, pDf) ==
    IF name = "M" /\ pDf.absolute /\ pDf.val = 0 THEN ErrMonth
    ELSE IF name = "D" /\ pDf.active /\ pDf.absolute /\ pDf.val = 0 THEN ErrDay
    ELSE IF name = "W" /\ pDf.active /\ (pDf.fromBegin \/ pDf.fromEnd) /\ pDf.val = 0
         THEN ErrRelWeek
    ELSE IF name = "W" /\ pDf.active /\ ~(pDf.fromBegin \/ pDf.fromEnd)
            /\ pDf.absolute /\ pDf.val = 0
         THEN ErrAbsWeek
    ELSE IF name = "w" /\ (pDf.val < 0 \/ pDf.val > 6) THEN ErrWeekday
    ELSE NoError

\* the assignments of the switch on name
storePart(s, name, pDf) ==
    CASE name = "Y" -> [s EXCEPT !.year = pDf]
      [] name = "M" -> [s EXCEPT !.month = pDf]
      [] name = "D" -> [s EXCEPT !.day = pDf]
      [] name = "W" -> [s EXCEPT !.week = pDf]
      [] name = "w" -> [s EXCEPT !.weekday = pDf]
      [] name = "h" -> [s EXCEPT !.hour = pDf]
      [] name = "m" -> [s EXCEPT !.minute = pDf]
      [] name = "s" -> [s EXCEPT !.second = pDf]
      [] OTHER -> s

RECURSIVE partsLoop(_, _, _, _)
\* one pass of the loop over parts, on part i, with idx the cursor after
\* the scan for its name and o what applyOptions returned
partBody(parts, i, idx, s, o) ==
    IF idx >= Len(partNames) THEN [ts |-> s, err |-> ErrSequence]
    ELSE IF o.err # NoError THEN [ts |-> s, err |-> o.err]
    ELSE IF checkAnchors(o.pDf) # NoError THEN [ts |-> s, err |-> checkAnchors(o.pDf)]
    ELSE IF checkValue(parts[i].name, o.pDf) # NoError
         THEN [ts |-> s, err |-> checkValue(parts[i].name, o.pDf)]
    ELSE partsLoop(parts, i + 1, idx, storePart(s, parts[i].name, o.pDf))

\* the loop over parts from part i on, with the cursor nameIdx and the
\* TimeShift s built so far: [ts, err] at the return it reaches
partsLoop(parts, i, nameIdx, s) ==
    IF i > Len(parts) THEN [ts |-> s, err |-> NoError]
    ELSE partBody(parts, i, nextNameIdx(parts[i].name, nameIdx), s,
                  applyOptions(parts[i].name, parts[i].options, signedPart(parts[i])))

\* the body of New after the cache lookup: the TimeShift as it stands when
\* New returns, and the error
build(p) ==
    IF p = <<>> THEN [ts |-> [NewTimeShift EXCEPT !.empty = TRUE], err |-> NoError]
    ELSE IF ~checkRE(p) THEN [ts |-> NewTimeShift, err |-> ErrPattern]
    ELSE partsLoop(splitRE(p), 1, 0, NewTimeShift)

-----------------------------------------------------------------------------
(* TimeShift.Exec: the evaluator.                                          *)

\* the closure proc: the field value v after the unit df
proc(df, v) ==
    IF ~df.active THEN v
    ELSE IF df.fromEnd THEN v
    ELSE IF df.absolute THEN df.val
    ELSE v + df.val

\* the day-from-end step on the reconstructed time r; day is the day field
\* proc left unchanged
dayFromEnd(s, r, day) ==
    IF s.day.fromEnd THEN AddDate(r, 0, 1, -day - s.day.val + 1) ELSE r

\* field substitution and reconstruction: result after the call of
\* time.Date; c is t.Clock(), d is t.Date()
reconstructOf(s, tm, c, d) ==
    GoDate(proc(s.year, d.year), proc(s.month, d.month), proc(s.day, d.day),
           proc(s.hour, c.hour), proc(s.minute, c.min), proc(s.second, c.sec),
           0, tm.loc)
reconstruct(s, tm) == reconstructOf(s, tm, Clock(tm), absDate(tm.day))

\* field substitution, reconstruction and the day-from-end step: the value
\* of result when Exec reaches the week unit; c is t.Clock(), d is t.Date()
candidateOf(s, tm, c, d) ==
    dayFromEnd(s, reconstructOf(s, tm, c, d), proc(s.day, d.day))
candidate(s, tm) == candidateOf(s, tm, Clock(tm), absDate(tm.day))

\* the reference weekday wd of the week branches
refWeekday(s, r) == IF s.weekday.active THEN s.weekday.val ELSE Weekday(r)

\* shift brought into 0..6, and into -6..0
wrapUp(shift) == IF shift < 0 THEN shift + 7 ELSE shift
wrapDown(shift) == IF shift > 0 THEN shift - 7 ELSE shift

\* weekFromFirst without the step "if shift < 0 { shift += 7 }"
weekFromFirstNoWrap(first, wd, val) ==
    AddDate(first, 0, 0, (wd - Weekday(first)) + (val - 1) * 7)

\* week from the begin of the month; first is the begin of the month
weekFromFirst(first, wd, val) ==
    AddDate(first, 0, 0, wrapUp(wd - Weekday(first)) + (val - 1) * 7)
weekFromBegin(r, wd, val) ==
    weekFromFirst(AddDate(r, 0, 0, -absDate(r.day).day + 1), wd, val)

\* weekFromLast without the step "if shift > 0 { shift -= 7 }"
weekFromLastNoWrap(last, wd, val) ==
    AddDate(last, 0, 0, (wd - Weekday(last)) - (val - 1) * 7)

\* week from the end of the month; last is the end of the month
weekFromLast(last, wd, val) ==
    AddDate(last, 0, 0, wrapDown(wd - Weekday(last)) - (val - 1) * 7)
weekFromEnd(r, wd, val) ==
    weekFromLast(AddDate(r, 0, 1, -absDate(r.day).day), wd, val)

\* weekFromJan1 counting the weeks from 0: val * 7 for (val - 1) * 7
weekFromJan1OffByOne(jan1, wd, val) ==
    AddDate(jan1, 0, 0, wrapUp(wd - Weekday(jan1)) + val * 7)

\* absolute week, from the begin of the year; jan1 is 1 Jan
weekFromJan1(jan1, wd, val) ==
    AddDate(jan1, 0, 0, wrapUp(wd - Weekday(jan1)) + (val - 1) * 7)
weekAbsolute(r, wd, val) ==
    weekFromJan1(AddDate(r, 0, 0, -absDate(r.day).yday + 1), wd, val)

\* relative week: the simple shift that continues to the weekday
weekRelative(r, val) == AddDate(r, 0, 0, val * 7)

\* weekdaySnap with the shift wrapped to move forward
weekdaySnapForward(r, val) == AddDate(r, 0, 0, wrapUp(val - Weekday(r)))

\* the standalone weekday step
weekdaySnap(r, val) == AddDate(r, 0, 0, val - Weekday(r))

\* Exec from the week unit on; r is result as it stands there
weekPhase(s, r) ==
    IF s.week.active /\ s.week.fromBegin
    THEN weekFromBegin(r, refWeekday(s, r), s.week.val)
    ELSE IF s.week.active /\ s.week.fromEnd
    THEN weekFromEnd(r, refWeekday(s, r), s.week.val)
    ELSE IF s.week.active /\ s.week.absolute
    THEN weekAbsolute(r, refWeekday(s, r), s.week.val)
    ELSE IF s.week.active /\ s.weekday.active
    THEN weekdaySnap(weekRelative(r, s.week.val), s.weekday.val)
    ELSE IF s.week.active THEN weekRelative(r, s.week.val)
    ELSE IF s.weekday.active THEN weekdaySnap(r, s.weekday.val)
    ELSE r

\* Exec on the TimeShift s
Exec(s, tm) == IF s.empty THEN tm ELSE weekPhase(s, candidate(s, tm))

-----------------------------------------------------------------------------
(* The cache.                                                              *)

\* lookup without the key: some entry of the cache, whatever its pattern
lookupAnyKey(c, p) == IF DOMAIN c = {} THEN Nil ELSE c[CHOOSE q \in DOMAIN c : TRUE]

\* cache[pattern] of a Go map: nil when the key is absent
lookup(c, p) == IF p \in DOMAIN c THEN c[p] ELSE Nil

\* cache[pattern] = ts
store(c, p, a) == [q \in DOMAIN c \cup {p} |-> IF q = p THEN a ELSE c[q]]

\* the time no call of Exec has returned yet
NoTime == [day |-> 0, sec |-> 0, nsec |-> 0, loc |-> "none"]

-----------------------------------------------------------------------------
(* New and Exec called from the goroutines.  A goroutine's record in       *)
(* procs holds its position pc and the locals pattern, cached, ts, err of  *)
(* its call of New, and t, result of its call of Exec.  cacheMutex is held *)
(* for reading by the goroutines at "rlocked" and for writing by the one   *)
(* at "locked".                                                            *)

Procs == 1..NumProcs

\* a goroutine that has called nothing yet
Idle ==
    [pc |-> "idle", pattern |-> <<>>, cached |-> FALSE, ts |-> Nil, err |-> NoError,
     t |-> NoTime, result |-> NoTime]

\* the state of cacheMutex
readers == {i \in Procs : procs[i].pc = "rlocked"}
writers == {i \in Procs : procs[i].pc = "locked"}

\* goroutine i moves to the record r; nothing shared changes
local(i, r) ==
    /\ procs' = [procs EXCEPT ![i] = r]
    /\ UNCHANGED <<heap, cache, calls>>

\* goroutine i calls New(p, isCached): the test "if cached"
Enter(i, p, isCached) ==
    /\ procs[i].pc \in {"idle", "returned", "ran"}
    /\ procs' = [procs EXCEPT ![i] =
                    [Idle EXCEPT !.pc = IF isCached THEN "rlock" ELSE "build",
                                 !.pattern = p, !.cached = isCached]]
    /\ calls' = calls + 1
    /\ UNCHANGED <<heap, cache>>

\* cacheMutex.RLock(): waits while a writer holds the mutex.  (A goroutine
\* at "lock" has not called Lock yet, so it holds no reader back.)
RLock(i) ==
    /\ procs[i].pc = "rlock"
    /\ writers = {}
    /\ local(i, [procs[i] EXCEPT !.pc = "rlocked"])

\* ts = cache[pattern]; cacheMutex.RUnlock(); if ts != nil { return }
Lookup(i) ==
    /\ procs[i].pc = "rlocked"
    /\ local(i, [procs[i] EXCEPT
                    !.ts = lookup(cache, procs[i].pattern),
                    !.pc = IF lookup(cache, procs[i].pattern) # Nil
                           THEN "returned" ELSE "build"])

\* buildAt without the test of err in the deferred function: the pointer
\* is kept, and stored when cached
buildAtNoErrTest(i, b) ==
    /\ heap' = Append(heap, b.ts)
    /\ procs' = [procs EXCEPT ![i] =
                    [procs[i] EXCEPT !.ts = Len(heap) + 1, !.err = b.err,
                                     !.pc = IF procs[i].cached
                                            THEN "lock" ELSE "returned"]]
    /\ UNCHANGED <<cache, calls>>

\* buildAt without the test of cached in the deferred function: every spec
\* built goes on to be stored
buildAtAlwaysStore(i, b) ==
    /\ heap' = IF b.err = NoError THEN Append(heap, b.ts) ELSE heap
    /\ procs' = [procs EXCEPT ![i] =
                    IF b.err # NoError
                    THEN [procs[i] EXCEPT !.ts = Nil, !.err = b.err, !.pc = "returned"]
                    ELSE [procs[i] EXCEPT !.ts = Len(heap) + 1, !.pc = "lock"]]
    /\ UNCHANGED <<cache, calls>>

\* ts = &TimeShift{empty: false}, the body of New up to its return
\* statement and the deferred function up to cacheMutex.Lock(), all of
\* which touch nothing shared; b is what the body built
buildAt(i, b) ==
    /\ heap' = IF b.err = NoError THEN Append(heap, b.ts) ELSE heap
    /\ procs' = [procs EXCEPT ![i] =
                    IF b.err # NoError
                    THEN [procs[i] EXCEPT !.ts = Nil, !.err = b.err, !.pc = "returned"]
                    ELSE [procs[i] EXCEPT !.ts = Len(heap) + 1,
                                          !.pc = IF procs[i].cached
                                                 THEN "lock" ELSE "returned"]]
    /\ UNCHANGED <<cache, calls>>
Build(i) ==
    /\ procs[i].pc = "build"
    /\ buildAt(i, build(procs[i].pattern))

\* cacheMutex.Lock(): waits while a reader or a writer holds the mutex
Lock(i) ==
    /\ procs[i].pc = "lock"
    /\ readers = {} /\ writers = {}
    /\ local(i, [procs[i] EXCEPT !.pc = "locked"])

\* cache[pattern] = ts; cacheMutex.Unlock(); New returns
Write(i) ==
    /\ procs[i].pc = "locked"
    /\ cache' = store(cache, procs[i].pattern, procs[i].ts)
    /\ procs' = [procs EXCEPT ![i] = [procs[i] EXCEPT !.pc = "returned"]]
    /\ UNCHANGED <<heap, calls>>

\* goroutine i calls ts.Exec(tm) on the TimeShift its New returned
Run(i, tm) ==
    /\ procs[i].pc = "returned"
    /\ procs[i].ts # Nil
    /\ local(i, [procs[i] EXCEPT !.t = tm, !.result = Exec(heap[procs[i].ts], tm),
                                 !.pc = "ran"])

\* the package as loaded: an empty cache, no call made
Init ==
    /\ heap = <<>>
    /\ cache = <<>>
    /\ calls = 0
    /\ procs = [i \in Procs |-> Idle]

-----------------------------------------------------------------------------
(* The inputs of the calls.                                                *)

Names == {"Y", "M", "D", "W", "w", "h", "m", "s"}
NoChar == <<>>
Anchors == {NoChar, <<"^">>, <<"$">>}
Signs == {NoChar, <<"+">>, <<"-">>}

RECURSIVE digitsOf(_)
\* the decimal digits of n >= 0
digitsOf(n) ==
    LET dg == <<"0", "1", "2", "3", "4", "5", "6", "7", "8", "9">>[(n % 10) + 1]
    IN  IF n < 10 THEN <<dg>> ELSE digitsOf(n \div 10) \o <<dg>>

\* the text of one clause
clause(name, anchor, sign, n) == <<name>> \o anchor \o sign \o digitsOf(n)

\* a clause followed by a space, or nothing
spaced(c) == IF c = NoChar THEN NoChar ELSE c \o <<" ">>

\* one clause: every unit, anchor and sign with the values 0..MaxVal
OneClause ==
    {clause(n, a, sg, v) : n \in Names, a \in Anchors, sg \in Signs, v \in 0..MaxVal}

\* one clause with a longer digit string
LongDigits ==
    {<<n>> \o d : n \in Names,
                  d \in {<<"0", "0">>, <<"0", "7">>, <<"1", "0">>, <<"5", "3">>,
                         <<"2", "1", "4", "7", "4", "8", "3", "6", "4", "7">>,
                         <<"2", "1", "4", "7", "4", "8", "3", "6", "4", "8">>,
                         <<"9", "9", "9", "9", "9", "9", "9", "9", "9", "9", "9">>}}

SmallClause ==
    {clause(n, a, sg, v) : n \in Names, a \in Anchors, sg \in {NoChar, <<"+">>}, v \in {0, 1}}

\* two clauses back to back
TwoClauses == {c1 \o c2 : c1 \in SmallClause, c2 \in SmallClause}

\* three clauses separated by spaces
ThreeClauses ==
    {clause(a, NoChar, NoChar, 1) \o <<" ">> \o clause(b, NoChar, <<"+">>, 1)
       \o <<" ">> \o clause(c, NoChar, <<"-">>, 1) : a \in Names, b \in Names, c \in Names}

\* blank patterns, and patterns outside the grammar
OtherPatterns ==
    { <<>>, <<" ">>, <<" ", " ", " ", " ">>, <<"\t">>,
      <<" ", " ", "Y", "2", "0", "2", "1", " ", " ">>,
      <<"\t", "W", "^", "1", "\n", "w", "0", "\t">>,
      <<"Z", "Z", "Z", "Y", "Y", "Y">>, <<"Y">>, <<"1">>, <<"Y", " ", "1">>,
      <<"Y", "1", "*">>, <<"H", "-", "4">>, <<"l", "+", "1", "0">>,
      <<"W", "$", "^", "2">>, <<"W", "^", "$", "2">>, <<"D", "+", "-", "3">>,
      <<"Y", "1", "Z", "M", "1">>, <<"D", "$", "-">> }

\* the patterns given to the parser
ParsePatterns == OneClause \cup LongDigits \cup TwoClauses \cup ThreeClauses \cup OtherPatterns

\* the units of the patterns given to the evaluator
ExecYear == {NoChar, clause("Y", NoChar, <<"+">>, 1)}
ExecMonth == {NoChar, clause("M", NoChar, <<"+">>, 1), clause("M", NoChar, NoChar, 2)}
ExecDayEnd == {clause("D", <<"$">>, NoChar, k) : k \in 1..MaxDayEnd}
ExecDay == {NoChar, clause("D", NoChar, <<"+">>, 6), clause("D", <<"$">>, NoChar, 1)}
ExecWeek ==
    {NoChar}
      \cup {clause("W", a, NoChar, v) : a \in {<<"^">>, <<"$">>}, v \in 1..MaxWeek}
      \cup {clause("W", NoChar, NoChar, v) : v \in {1, 2, 53}}
      \cup {clause("W", NoChar, <<"+">>, 0), clause("W", NoChar, <<"-">>, 1),
            clause("W", NoChar, <<"+">>, 1)}
ExecWeekday ==
    {NoChar, clause("w", NoChar, <<"+">>, 3)} \cup {clause("w", NoChar, NoChar, v) : v \in 0..6}

\* the patterns given to the evaluator
ExecPatterns ==
    {spaced(y) \o spaced(m) \o d : y \in ExecYear, m \in ExecMonth, d \in ExecDayEnd}
      \cup {spaced(d) \o spaced(w) \o wd : d \in ExecDay, w \in ExecWeek, wd \in ExecWeekday}
      \cup { <<" ", " ", " ", " ">>,
             <<"Y", "2", "0", "2", "1", " ", "M", "2", " ", "D", "3", " ",
               "h", "6", " ", "m", "2", "0", " ", "s", "3", "0">>,
             <<"M", "+", "2", "2", " ", "D", "+", "3", "3", " ", "h", "+", "6", "6",
               " ", "m", "+", "2", "0", "0", " ", "s", "+", "3", "0", "0">>,
             <<"D", "$", "1", " ", "h", "-", "6", " ", "m", "+", "2", "0", " ",
               "s", "-", "3", "0">> }

\* the number of days of a month
daysIn(year, month) ==
    daysBefore[month + 1] - daysBefore[month]
      + (IF month = 2 /\ isLeap(year) THEN 1 ELSE 0)

\* the timestamps given to the evaluator
ExecTimes ==
    {GoDate(x[1], x[2], x[3], 14, 55, 22, 0, "UTC") :
        x \in {z \in (2020..LastYear) \X (1..12) \X {1, 13, 28, 29, 30, 31} :
                  z[3] <= daysIn(z[1], z[2])}}
      \cup {GoDate(y, m, 13, 23, 59, 59, 123456789, "+03:00") : y \in 2020..LastYear, m \in 1..12}
      \cup {GoDate(y, 2, d, 0, 0, 0, 0, "UTC") : y \in {1900, 2000, 2099}, d \in {13, 28, 29}}
      \cup {GoDate(y, 12, 31, 0, 0, 0, 0, "UTC") : y \in {1999, 2099}}
      \cup {GoDate(1969, 7, 20, 20, 17, 40, 987654321, "UTC")}

\* the patterns of the goroutines
ConcPatterns == { <<"Y", "+", "1">>, <<"W", "$", "1", " ", "w", "0">>, <<"D", "0">> }
\* the timestamp of the goroutines
ConcTimes == { GoDate(2021, 2, 28, 11, 55, 21, 500, "+03:00") }

-----------------------------------------------------------------------------
(* The specifications.                                                     *)

\* the goroutines' steps, whichever goroutine takes them
ConcRLock == \E i \in Procs : RLock(i)
ConcLookup == \E i \in Procs : Lookup(i)
ConcBuild == \E i \in Procs : Build(i)
ConcLock == \E i \in Procs : Lock(i)
ConcWrite == \E i \in Procs : Write(i)

\* the parser alone: goroutine 1 calls New once on the package as loaded
\* and runs it, step by step, to its return
ParseEnter == calls = 0 /\ \E p \in ParsePatterns, c \in BOOLEAN : Enter(1, p, c)
NextParse ==
    \/ ParseEnter \/ ConcRLock \/ ConcLookup \/ ConcBuild
    \/ ConcLock \/ ConcWrite
SpecParse == Init /\ [][NextParse]_vars

\* the evaluator: goroutine 1 calls New without the cache, then Exec on
\* what New returned
ExecEnter == calls = 0 /\ \E p \in ExecPatterns : Enter(1, p, FALSE)
ExecRun == \E tm \in ExecTimes : Run(1, tm)
NextExec == ExecEnter \/ ConcBuild \/ ExecRun
SpecExec == Init /\ [][NextExec]_vars

\* the cache: MaxCalls calls of New shared among NumProcs goroutines, one
\* after another or overlapping with their steps interleaved, each followed
\* by at most one call of Exec
ConcEnter ==
    calls < MaxCalls /\ \E i \in Procs, p \in ConcPatterns, c \in BOOLEAN : Enter(i, p, c)
ConcRun == \E i \in Procs, tm \in ConcTimes : Run(i, tm)
NextConc ==
    \/ ConcEnter \/ ConcRLock \/ ConcLookup \/ ConcBuild
    \/ ConcLock \/ ConcWrite \/ ConcRun
SpecConc == Init /\ [][NextConc]_vars

-----------------------------------------------------------------------------
(* The claims: vocabulary.                                                 *)

\* the call of goroutine 1, the only caller of SpecParse and SpecExec: op
\* is "New" once its New has returned and "Exec" once its Exec has
op ==
    IF procs[1].pc = "returned" THEN "New"
    ELSE IF procs[1].pc = "ran" THEN "Exec" ELSE "none"
pattern == procs[1].pattern
ts == procs[1].ts
err == procs[1].err
t == procs[1].t
result == procs[1].result

\* the TimeShift its New returned
spec == heap[ts]

\* a pattern that is empty or holds whitespace only
isBlank(p) == \A i \in 1..Len(p) : isSpace(p[i])

\* the weekday of a day number, 0 is Sunday
weekdayOf(dayNo) == (dayNo + 1) % 7

\* how many days of first..last fall on the weekday wd
occurrences(first, last, wd) == Cardinality({d \in first..last : weekdayOf(d) = wd})

\* the candidate of the last Exec, and the first and last day of its month
\* and the first day of its year, as day numbers
cand == candidate(spec, t)
candMonthFirst == cand.day - absDate(cand.day).day + 1
candMonthLast ==
    candMonthFirst + daysIn(absDate(cand.day).year, absDate(cand.day).month) - 1
candJan1 == cand.day - absDate(cand.day).yday + 1

\* the reference weekday of the last Exec
refWd == IF spec.weekday.active THEN spec.weekday.val ELSE weekdayOf(cand.day)

\* result keeps the candidate's time of day and location
sameClock == result.sec = cand.sec /\ result.nsec = cand.nsec /\ result.loc = cand.loc

-----------------------------------------------------------------------------
(* C1 - C6: the evaluator, under SpecExec.                                 *)

\* C1: for every pattern that is empty or whitespace only New succeeds, and
\* Exec of the spec it returns gives back the input timestamp.
C1_Identity ==
    (op # "none" /\ isBlank(pattern))
        => /\ err = NoError
           /\ ts # Nil
           /\ (op = "Exec" => result = t)

\* C2: with a day unit D$k and no week or weekday unit, Exec returns the
\* k-th day counted from the end of a month: result + (k - 1) days is the
\* last day of the month result lies in.
C2_DayFromEnd ==
    (op = "Exec" /\ spec.day.fromEnd /\ ~spec.week.active /\ ~spec.weekday.active)
        => /\ absDate(result.day + spec.day.val).day = 1
           /\ absDate(result.day + spec.day.val - 1).month = absDate(result.day).month

\* C3: with W^v Exec returns the v-th occurrence of the reference weekday
\* counted from the first day of the candidate's month; for v = 1 it lies
\* on day 1..7 of that month.
C3_WeekFromBegin ==
    (op = "Exec" /\ spec.week.active /\ spec.week.fromBegin)
        => /\ spec.week.val >= 1
           /\ weekdayOf(result.day) = refWd
           /\ result.day >= candMonthFirst
           /\ occurrences(candMonthFirst, result.day, refWd) = spec.week.val
           /\ spec.week.val = 1
                => /\ absDate(result.day).month = absDate(cand.day).month
                   /\ absDate(result.day).year = absDate(cand.day).year
                   /\ absDate(result.day).day \in 1..7
           /\ sameClock

\* C3, witness: the first occurrence lies in the month's first week after
\* the weekday of day 1 (the shift wrapped), and the result left the candidate
C3_Witness ==
    /\ op = "Exec" /\ spec.week.active /\ spec.week.fromBegin
    /\ spec.week.val = 1 /\ spec.weekday.active
    /\ spec.weekday.val < weekdayOf(candMonthFirst)
    /\ result.day # cand.day

\* C4: with W$v Exec returns the v-th occurrence of the reference weekday
\* counted backward from the last day of the candidate's month; for v = 1
\* it lies within the last 7 days of that month.
C4_WeekFromEnd ==
    (op = "Exec" /\ spec.week.active /\ spec.week.fromEnd)
        => /\ spec.week.val >= 1
           /\ weekdayOf(result.day) = refWd
           /\ result.day <= candMonthLast
           /\ occurrences(result.day, candMonthLast, refWd) = spec.week.val
           /\ spec.week.val = 1
                => /\ candMonthLast - result.day \in 0..6
                   /\ absDate(result.day).month = absDate(cand.day).month
           /\ sameClock

\* C4, witness: the last occurrence lies before the month's last day (the
\* shift wrapped down) in a month of 30 days
C4_Witness ==
    /\ op = "Exec" /\ spec.week.active /\ spec.week.fromEnd
    /\ spec.week.val = 1 /\ spec.weekday.active
    /\ spec.weekday.val > weekdayOf(candMonthLast)
    /\ absDate(candMonthLast).day = 30

\* C5: with an absolute unanchored Wv Exec returns the v-th occurrence of
\* the reference weekday in the candidate's year counted from January 1:
\* January 1 plus ((wd - weekday(Jan 1)) mod 7) + 7 * (v - 1) days.
C5_WeekAbsolute ==
    (op = "Exec" /\ spec.week.active /\ spec.week.absolute
       /\ ~spec.week.fromBegin /\ ~spec.week.fromEnd)
        => /\ spec.week.val >= 1
           /\ absDate(candJan1).month = 1 /\ absDate(candJan1).day = 1
           /\ absDate(candJan1).year = absDate(cand.day).year
           /\ result.day = candJan1 + ((refWd - weekdayOf(candJan1)) % 7)
                             + 7 * (spec.week.val - 1)
           /\ occurrences(candJan1, result.day, refWd) = spec.week.val
           /\ sameClock

\* C5, witness: the 53rd occurrence falls in the next year
C5_Witness ==
    /\ op = "Exec" /\ spec.week.active /\ spec.week.absolute
    /\ ~spec.week.fromBegin /\ ~spec.week.fromEnd
    /\ spec.week.val = 53
    /\ absDate(result.day).year = absDate(cand.day).year + 1

\* the candidate advanced by the relative week, as a day number
snapBase == cand.day + 7 * (IF spec.week.active THEN spec.week.val ELSE 0)

\* C6: with the weekday unit active (value v) and the week unit inactive or
\* relative (value k), Exec returns candidate + 7k days moved by
\* (v - weekday of that date) days: weekday v, the same Sunday-to-Saturday
\* week, a move of -6..6 days.
C6_WeekdaySnap ==
    (op = "Exec" /\ spec.weekday.active /\ (~spec.week.active \/ ~spec.week.absolute))
        => /\ result.day = snapBase + (spec.weekday.val - weekdayOf(snapBase))
           /\ weekdayOf(result.day) = spec.weekday.val
           /\ result.day - weekdayOf(result.day) = snapBase - weekdayOf(snapBase)
           /\ result.day - snapBase \in -6..6
           /\ sameClock

\* C6, witness: a relative week of -1 and a move backward within the week
C6_Witness ==
    /\ op = "Exec" /\ spec.weekday.active
    /\ spec.week.active /\ ~spec.week.absolute /\ spec.week.val = -1
    /\ result.day < snapBase

-----------------------------------------------------------------------------
(* C7 - C9: the parser, under SpecParse.                                   *)

\* the fixed order of the units
UnitOrder == <<"Y", "M", "D", "W", "w", "h", "m", "s">>
unitPos(c) == CHOOSE k \in 1..Len(UnitOrder) : UnitOrder[k] = c

\* the unit letters of a pattern, in the order they are written
unitLetters(p) == SelectSeq(p, isName)

\* the letters stand in strictly increasing position of the fixed order
increasing(ls) == \A i \in 1..(Len(ls) - 1) : unitPos(ls[i]) < unitPos(ls[i + 1])

\* C7: New accepts a pattern only if its unit letters appear in strictly
\* increasing position of the order Y, M, D, W, w, h, m, s; a pattern in
\* which a unit repeats or follows a later one makes New fail.
C7_UnitOrder ==
    op = "New"
        => /\ err = NoError => increasing(unitLetters(pattern))
           /\ ~increasing(unitLetters(pattern)) => (err # NoError /\ ts = Nil)

\* C7, witness: a pattern of the grammar with three units is refused for
\* the order of its units alone
C7_Witness ==
    /\ op = "New" /\ err = ErrSequence
    /\ checkRE(pattern) /\ Len(unitLetters(pattern)) = 3

\* the clauses of a pattern of the grammar, and the value a clause writes
clauses(p) == splitRE(p)
clauseSet(p) == {clauses(p)[i] : i \in 1..Len(clauses(p))}
written(c) == IF c.sign = <<"-">> THEN -ParseInt(c.val) ELSE ParseInt(c.val)

\* the anchor rules on one clause
anchorOK(c) ==
    /\ c.options = <<"^">> => c.name = "W"
    /\ c.options = <<"$">> => c.name \in {"D", "W"}
    /\ c.options # <<>> => c.sign = <<>>

\* the value rules on one clause: month or day absolute with value 0, week
\* anchored or absolute with value 0, weekday outside 0..6
valueBad(c) ==
    \/ c.name \in {"M", "D"} /\ c.sign = <<>> /\ written(c) = 0
    \/ c.name = "W" /\ c.sign = <<>> /\ written(c) = 0
    \/ c.name = "w" /\ written(c) \notin 0..6

\* C8: among the patterns that pass the grammar, the ordering and the
\* anchor checks, New fails exactly when a clause breaks a value rule; a
\* relative week of 0 is accepted.
C8_ValueRules ==
    (op = "New" /\ checkRE(pattern) /\ increasing(unitLetters(pattern))
       /\ \A c \in clauseSet(pattern) : anchorOK(c))
        => /\ err # NoError <=> \E c \in clauseSet(pattern) : valueBad(c)
           /\ err # NoError => ts = Nil

\* C8, witness: a relative week of 0 is accepted
C8_Witness ==
    /\ op = "New" /\ err = NoError /\ ts # Nil
    /\ spec.week.active /\ ~spec.week.absolute /\ spec.week.val = 0

\* the units of a TimeShift
Units == {"year", "month", "day", "week", "weekday", "hour", "minute", "second"}
unit(s, u) ==
    CASE u = "year" -> s.year [] u = "month" -> s.month [] u = "day" -> s.day
      [] u = "week" -> s.week [] u = "weekday" -> s.weekday [] u = "hour" -> s.hour
      [] u = "minute" -> s.minute [] u = "second" -> s.second

\* the pattern writes an anchor where the rules refuse it: '^' after a unit
\* other than W, '$' after a unit other than D and W, an anchor before a
\* sign, two anchors in a row
badAnchorText(p) ==
    \E i \in 1..(Len(p) - 1) :
        \/ isName(p[i]) /\ p[i] # "W" /\ p[i + 1] = "^"
        \/ isName(p[i]) /\ p[i] \notin {"D", "W"} /\ p[i + 1] = "$"
        \/ p[i] \in {"^", "$"} /\ p[i + 1] \in {"+", "-"}
        \/ p[i] \in {"^", "$"} /\ p[i + 1] \in {"^", "$"}

\* C9: in every spec New returns no partDef has both anchors, an anchored
\* partDef is absolute, fromBegin is on the week only and fromEnd on the day
\* and the week only; a pattern that writes an anchor against these rules
\* makes New fail.
C9_AnchorInvariant ==
    op = "New"
        => /\ (err = NoError /\ ts # Nil)
                => \A u \in Units :
                      /\ ~(unit(spec, u).fromBegin /\ unit(spec, u).fromEnd)
                      /\ (unit(spec, u).fromBegin \/ unit(spec, u).fromEnd)
                            => unit(spec, u).absolute
                      /\ unit(spec, u).fromBegin => u = "week"
                      /\ unit(spec, u).fromEnd => u \in {"day", "week"}
           /\ badAnchorText(pattern) => (err # NoError /\ ts = Nil)

\* C9, witness: a spec with the day anchored from the end and the week from
\* the begin is returned
C9_Witness ==
    /\ op = "New" /\ err = NoError /\ ts # Nil
    /\ spec.day.fromEnd /\ spec.week.fromBegin

-----------------------------------------------------------------------------
(* C10, C11: failed calls and calls without the cache, under SpecConc.     *)

\* what the parse of each pattern of the goroutines builds, and what Exec
\* of that spec returns on each timestamp
parsed == [p \in ConcPatterns |-> build(p)]
expected == [p \in ConcPatterns |-> [tm \in ConcTimes |-> Exec(parsed[p].ts, tm)]]

\* every cache entry is the spec a successful parse of its key built
cacheValid ==
    \A p \in DOMAIN cache :
        /\ cache[p] \in 1..Len(heap)
        /\ parsed[p].err = NoError
        /\ heap[cache[p]] = parsed[p].ts

\* goroutine i returns from New in this step
returns(i) ==
    /\ procs[i].pc \in {"rlocked", "build", "locked"}
    /\ procs'[i].pc = "returned"

\* C10: whenever a call of New returns an error it returns nil, and the
\* call has left the cache alone: it returns in a step that does not change
\* the cache, and no goroutine goes to the store with an error or with a
\* pattern whose parse fails; every cache entry is a spec that passed the
\* validation.  This holds also when calls overlap.
C10_FailedParse ==
    /\ [][\A i \in Procs :
            (returns(i) /\ procs'[i].err # NoError)
                => (procs'[i].ts = Nil /\ cache' = cache /\ heap' = heap)]_vars
    /\ [](\A i \in Procs :
            /\ procs[i].pc \in {"lock", "locked"}
                  => (procs[i].err = NoError /\ parsed[procs[i].pattern].err = NoError)
            /\ procs[i].pc \in {"returned", "ran"}
                  => /\ procs[i].err # NoError => procs[i].ts = Nil
                     /\ parsed[procs[i].pattern].err # NoError
                           => (procs[i].err # NoError
                                 /\ procs[i].pattern \notin DOMAIN cache))
    /\ []cacheValid

\* C10, witness: a cached call has failed while the cache holds an entry
\* and another goroutine is inside New
C10_Witness ==
    \E i, j \in Procs :
        /\ procs[i].pc = "returned" /\ procs[i].cached
        /\ procs[i].err # NoError /\ procs[i].ts = Nil
        /\ cache # <<>>
        /\ procs[j].pc \in {"rlocked", "build", "lock", "locked"}

\* the addresses the cache holds
cachedAddrs(c) == {c[p] : p \in DOMAIN c}

\* C11: a call New(pattern, false), of a valid pattern or not, never reads
\* or writes the cache: it takes no step at the lookup or at the store, no
\* step of it changes the cache, and the spec it returns is a freshly built
\* one: a new object, which no cache entry and no other goroutine holds,
\* that is what the parse of the pattern builds whatever the cache holds.
\* This holds also when calls overlap.
C11_UncachedFrame ==
    /\ [][\A i \in Procs :
            (procs'[i] # procs[i] /\ ~procs'[i].cached)
                => /\ cache' = cache
                   /\ (returns(i) /\ procs'[i].err = NoError)
                        => /\ procs'[i].ts \notin 1..Len(heap)
                           /\ procs'[i].ts = Len(heap')
                           /\ heap' = Append(heap, parsed[procs[i].pattern].ts)]_vars
    /\ [](\A i \in Procs :
            ~procs[i].cached
                => /\ procs[i].pc \in {"idle", "build", "returned", "ran"}
                   /\ procs[i].pc \in {"returned", "ran"}
                        => /\ procs[i].err = parsed[procs[i].pattern].err
                           /\ procs[i].ts # Nil <=> procs[i].err = NoError
                           /\ procs[i].ts # Nil
                                => /\ procs[i].ts \notin cachedAddrs(cache)
                                   /\ \A j \in Procs \ {i} :
                                          procs[j].ts # procs[i].ts)

\* C11, witness: New(pattern, false) returned a spec while the cache holds
\* another spec under the same pattern and another goroutine is at the
\* store with a third
C11_Witness ==
    \E i, j \in Procs :
        /\ procs[i].pc = "returned" /\ ~procs[i].cached
        /\ procs[i].err = NoError /\ procs[i].ts # Nil
        /\ procs[i].pattern \in DOMAIN cache
        /\ cache[procs[i].pattern] # procs[i].ts
        /\ procs[j].pc = "locked" /\ procs[j].pattern = procs[i].pattern

-----------------------------------------------------------------------------
(* C12: caching transparency, under SpecConc.                              *)

\* goroutine i has New(pattern, isCached) behind it and a spec in hand
holds(i, isCached) ==
    /\ procs[i].pc \in {"returned", "ran"}
    /\ procs[i].cached = isCached
    /\ procs[i].ts # Nil

\* C12: after any interleaving of calls of New, the spec New(p, true)
\* returns for a valid pattern p behaves under Exec as the spec
\* New(p, false) returns.  The spec is field for field the one the parse
\* of p builds and the one a goroutine holds from New(p, false); Exec of it
\* on a timestamp returns what Exec of the parsed spec returns, and what
\* the goroutine with the spec of New(p, false) got on that timestamp;
\* New(p, true) fails exactly when the parse of p fails.
C12_CachingTransparency ==
    \A i \in Procs :
        /\ (procs[i].pc \in {"returned", "ran"} /\ procs[i].cached)
              => /\ procs[i].err = parsed[procs[i].pattern].err
                 /\ procs[i].ts # Nil <=> procs[i].err = NoError
        /\ holds(i, TRUE)
              => /\ heap[procs[i].ts] = parsed[procs[i].pattern].ts
                 /\ \A j \in Procs :
                        (holds(j, FALSE) /\ procs[j].pattern = procs[i].pattern)
                          => /\ heap[procs[j].ts] = heap[procs[i].ts]
                             /\ (procs[i].pc = "ran" /\ procs[j].pc = "ran"
                                   /\ procs[i].t = procs[j].t)
                                  => procs[i].result = procs[j].result
                 /\ procs[i].pc = "ran"
                      => procs[i].result = expected[procs[i].pattern][procs[i].t]

\* C12, witness: two goroutines ran Exec on the same timestamp, one on the
\* spec the cache gave it for the pattern (three calls of New built two
\* specs), the other on the spec its New(pattern, false) built; the
\* results agree and differ from the timestamp
C12_Witness ==
    \E i, j \in Procs :
        /\ holds(i, TRUE) /\ holds(j, FALSE)
        /\ procs[i].pc = "ran" /\ procs[j].pc = "ran"
        /\ procs[i].pattern = procs[j].pattern
        /\ procs[i].t = procs[j].t
        /\ procs[i].ts # procs[j].ts
        /\ lookup(cache, procs[i].pattern) = procs[i].ts
        /\ calls = 3 /\ Len(heap) = 2
        /\ procs[i].result = procs[j].result
        /\ procs[i].result # procs[i].t

-----------------------------------------------------------------------------
(* C13: writes to the cache, under SpecConc.                               *)

\* C13: each pattern key is written to the cache at most once, also when
\* several calls New(pattern, true) of the same pattern run concurrently:
\* an entry, once written, is never written again; and every entry a
\* reader can see is one fully built spec.
C13_OneWritePerKey ==
    /\ [][\A p \in DOMAIN cache : p \in DOMAIN cache' /\ cache'[p] = cache[p]]_vars
    /\ []cacheValid

-----------------------------------------------------------------------------
(* C14: field substitution, under SpecExec.                                *)

\* the nine fields of a time
fieldsOf(tm) ==
    [year |-> absDate(tm.day).year, month |-> absDate(tm.day).month,
     day |-> absDate(tm.day).day,
     hour |-> Clock(tm).hour, minute |-> Clock(tm).min, second |-> Clock(tm).sec,
     milli |-> tm.nsec \div 1000000, micro |-> (tm.nsec \div 1000) % 1000,
     nano |-> tm.nsec % 1000]

\* the fields of the last Exec's timestamp after substitution
substituted ==
    [year |-> proc(spec.year, fieldsOf(t).year),
     month |-> proc(spec.month, fieldsOf(t).month),
     day |-> proc(spec.day, fieldsOf(t).day),
     hour |-> proc(spec.hour, fieldsOf(t).hour),
     minute |-> proc(spec.minute, fieldsOf(t).minute),
     second |-> proc(spec.second, fieldsOf(t).second)]

\* no substituted field leaves its natural range, and the day exists in
\* the substituted month: the reconstruction carries nothing
inRange ==
    /\ substituted.month \in 1..12
    /\ substituted.day \in 1..daysIn(substituted.year, substituted.month)
    /\ substituted.hour \in 0..23
    /\ substituted.minute \in 0..59
    /\ substituted.second \in 0..59

\* C14: for a non-empty spec and a timestamp t, when no field leaves its
\* natural range, every field among year, month, day, hour, minute, second,
\* millisecond, microsecond, nanosecond whose unit is inactive has in the
\* reconstructed candidate the value it has in t.  A TimeShift has no unit
\* for the three sub-second fields, which are therefore always inactive.
C14_InactiveFields ==
    (op = "Exec" /\ ~spec.empty /\ inRange)
        => /\ ~spec.year.active
                => fieldsOf(reconstruct(spec, t)).year = fieldsOf(t).year
           /\ ~spec.month.active
                => fieldsOf(reconstruct(spec, t)).month = fieldsOf(t).month
           /\ ~spec.day.active
                => fieldsOf(reconstruct(spec, t)).day = fieldsOf(t).day
           /\ ~spec.hour.active
                => fieldsOf(reconstruct(spec, t)).hour = fieldsOf(t).hour
           /\ ~spec.minute.active
                => fieldsOf(reconstruct(spec, t)).minute = fieldsOf(t).minute
           /\ ~spec.second.active
                => fieldsOf(reconstruct(spec, t)).second = fieldsOf(t).second
           /\ fieldsOf(reconstruct(spec, t)).milli = fieldsOf(t).milli
           /\ fieldsOf(reconstruct(spec, t)).micro = fieldsOf(t).micro
           /\ fieldsOf(reconstruct(spec, t)).nano = fieldsOf(t).nano

-----------------------------------------------------------------------------
(* C15: the value of a clause, under SpecParse.                            *)

\* the unit a clause's letter names
unitOfName(name) ==
    CASE name = "Y" -> "year" [] name = "M" -> "month" [] name = "D" -> "day"
      [] name = "W" -> "week" [] name = "w" -> "weekday" [] name = "h" -> "hour"
      [] name = "m" -> "minute" [] name = "s" -> "second"

RECURSIVE stripZeros(_)
\* a digit string without its leading zeros: the canonical decimal numeral
\* of the number it writes
stripZeros(d) == IF Len(d) > 1 /\ d[1] = "0" THEN stripZeros(Tail(d)) ELSE d

\* the value stored for the clause c in the spec the last New returned
storedVal(c) == unit(spec, unitOfName(c.name)).val

\* C15: for every clause of an accepted pattern the value stored in its
\* partDef is the decimal number its digit string writes, whatever the
\* length of the digit string, negated when the sign is '-' and as written
\* when the sign is '+' or absent: the numeral of the magnitude stored is
\* the digit string without leading zeros.
C15_ClauseValue ==
    (op = "New" /\ err = NoError /\ ts # Nil)
        => \A c \in clauseSet(pattern) :
              /\ unit(spec, unitOfName(c.name)).active
              /\ c.sign = <<"-">>
                    => /\ storedVal(c) <= 0
                       /\ digitsOf(-storedVal(c)) = stripZeros(c.val)
              /\ c.sign # <<"-">>
                    => /\ storedVal(c) >= 0
                       /\ digitsOf(storedVal(c)) = stripZeros(c.val)

====
